---- MODULE Spec2Model ----
\* The Instance reconciliation controller of service-catalog
\* (pkg/controller/controller_instance.go): one Instance, the authoritative
\* store, the reconciliation queue and the polling queue, one reconciliation
\* worker and one polling worker, the broker and the other writers of the
\* Instance (the user, another controller's finalizer).
EXTENDS Integers, Sequences, FiniteSets, TLC

\* ---------------------------------------------------------------- bounds
\* Number of distinct desired-state specs the user switches between.
MaxSpec == 2

\* Last value of the clock.
MaxTime == 5

\* ------------------------------------------------------------- constants
\* v1alpha1.FinalizerServiceCatalog. Tokens are numbers so that the sorted
\* list of sets.String.List() is computable: 3 sorts after the controller's
\* token.
FinalizerServiceCatalog == 2
StatusOK == 200
StatusAccepted == 202
StatusGone == 410

Specs == 1..MaxSpec
OtherTokens == {3}
W == {"rec", "poll"}

\* Status codes a broker answers without a transport error.
CreateCodes == {StatusOK, 201, StatusAccepted}
DeleteCodes == {StatusOK, 201, StatusAccepted}
PollCodes == {StatusOK, StatusGone}
PollStates == {"in progress", "succeeded", "failed", "unknown"}
Operations == {"", "op-1"}

VARIABLES
  store,          \* the Instance in the authoritative store
  instanceQueue,  \* the key is pending in c.instanceQueue
  pollingQueue,   \* the key is pending in c.pollingQueue
  wk,             \* per worker: position in the handler and its locals
  accepted,       \* history: a 202 was received and no terminal poll outcome since
  acceptedOperation, \* history: the operation token of the latest 202, "" if none
  now             \* the clock time.Now() reads; it advances in ConditionSpec only

vars == <<store, instanceQueue, pollingQueue, wk, accepted, acceptedOperation, now>>

\* ------------------------------------------------------------ the object
NoStatus ==
  [AsyncOpInProgress |-> FALSE, LastOperation |-> <<>>, Checksum |-> <<>>,
   Conditions |-> <<>>]

NoObj ==
  [exists |-> FALSE, ResourceVersion |-> 0, DeletionTimestamp |-> FALSE,
   Finalizers |-> <<>>, Spec |-> 0, Status |-> NoStatus]

NewInstance(spec) ==
  [exists |-> TRUE, ResourceVersion |-> 1, DeletionTimestamp |-> FALSE,
   Finalizers |-> <<FinalizerServiceCatalog>>, Spec |-> spec, Status |-> NoStatus]

IdleWorker ==
  [pc |-> "idle", site |-> 0, instance |-> NoObj, loaded |-> NoObj,
   latest |-> NoObj, finalizers |-> <<>>, ret |-> "", log |-> <<>>]

Range(s) == {s[i] : i \in 1..Len(s)}

\* checksum.InstanceSpecChecksum: a digest of the spec.
InstanceSpecChecksum(spec) == 100 + spec

\* ---------------------------------------------------------------- store
\* resourceVersion is an opaque token the store compares for equality only:
\* after every step the revisions still held by some copy are renumbered
\* 1..n in their order, which keeps every comparison and the state finite.
RVs(s, k) ==
  {o.ResourceVersion :
     o \in {x \in ({s} \cup {k[w].instance : w \in W} \cup {k[w].latest : w \in W}) :
              x.exists}}

Rank(S, r) == Cardinality({x \in S : x <= r})

Renum(S, o) == IF o.exists THEN [o EXCEPT !.ResourceVersion = Rank(S, @)] ELSE o

Commit(s2, k2) ==
  LET S == RVs(s2, k2) IN
  /\ store' = Renum(S, s2)
  /\ wk' = [w \in W |->
              [k2[w] EXCEPT !.instance = Renum(S, @), !.loaded = Renum(S, @),
                            !.latest = Renum(S, @)]]

\* The store erases an object whose deletion timestamp is set once its
\* finalizer list is empty.
Purge(o) == IF o.DeletionTimestamp /\ o.Finalizers = <<>> THEN NoObj ELSE o

ReadyTrue(obj) ==
  \E i \in 1..Len(obj.Status.Conditions) :
    /\ obj.Status.Conditions[i].Type = "Ready"
    /\ obj.Status.Conditions[i].Status = "True"

\* Instances(ns).UpdateStatus: optimistic concurrency on the revision; the
\* spec is kept; the checksum is set by the store when Ready is True.
UpdateStatus(s, obj) ==
  IF ~s.exists \/ ~obj.exists THEN [err |-> "NotFound", store |-> s]
  ELSE IF obj.ResourceVersion # s.ResourceVersion THEN [err |-> "Conflict", store |-> s]
  ELSE [err |-> "",
        store |-> Purge([s EXCEPT
                    !.ResourceVersion = @ + 1,
                    !.Finalizers = obj.Finalizers,
                    !.Status = [obj.Status EXCEPT
                       !.Checksum = IF ReadyTrue(obj)
                                    THEN <<InstanceSpecChecksum(s.Spec)>>
                                    ELSE s.Status.Checksum]])]

\* ------------------------------------------------- the handler's helpers
\* sets.NewString(l...).List(): the elements of l, without duplicates, sorted.
RECURSIVE SortedList(_)
SortedList(S) ==
  IF S = {} THEN <<>>
  ELSE LET m == CHOOSE x \in S : \A y \in S : x <= y
       IN <<m>> \o SortedList(S \ {m})

\* finalizers.Has(finalizerToken)
HasFinalizer(instance) == FinalizerServiceCatalog \in Range(instance.Finalizers)

\* finalizers := sets.NewString(instance.Finalizers...);
\* finalizers.Delete(finalizerToken); finalizers.List()
FinalizersWithoutToken(instance) ==
  SortedList(Range(instance.Finalizers) \ {FinalizerServiceCatalog})

\* Mutant of NoWorkToDo: the comparison of the checksums is inverted.
NoWorkToDo_Inverted(instance) ==
  /\ ~instance.Status.AsyncOpInProgress
  /\ instance.Status.Checksum # <<>>
  /\ ~instance.DeletionTimestamp
  /\ InstanceSpecChecksum(instance.Spec) # instance.Status.Checksum[1]

\* reconcileInstance's early return: no async operation, a checksum, no
\* deletion timestamp, and the checksum of the spec equals the stored one.
NoWorkToDo(instance) ==
  /\ ~instance.Status.AsyncOpInProgress
  /\ instance.Status.Checksum # <<>>
  /\ ~instance.DeletionTimestamp
  /\ InstanceSpecChecksum(instance.Spec) = instance.Status.Checksum[1]

\* Mutant of NeverProvisioned: the operation in progress is not looked at.
NeverProvisioned_IgnoresAsync(instance) == instance.Status.Checksum = <<>>

\* reconcileInstanceDelete: no operation in progress and never provisioned.
NeverProvisioned(instance) ==
  ~instance.Status.AsyncOpInProgress /\ instance.Status.Checksum = <<>>

\* The branch reconcileInstanceDelete takes on DeleteServiceInstance's result.
DeleteOutcome(err, respCode) ==
  IF err THEN "error"
  ELSE IF respCode = StatusAccepted THEN "async"
  ELSE IF respCode = StatusOK THEN "ok"
  ELSE "failure"

\* The branch reconcileInstance takes on CreateServiceInstance's result.
CreateOutcome(err, respCode) ==
  IF err THEN "error"
  ELSE IF respCode = StatusAccepted THEN "async"
  ELSE "ok"

\* The branch pollInstance takes on PollServiceInstance's result.
PollOutcome(err, rc, state, deleting) ==
  IF err THEN "error"
  ELSE IF rc = StatusGone /\ deleting THEN "gone"
  ELSE IF state = "in progress" THEN "in progress"
  ELSE IF state = "succeeded" THEN "succeeded"
  ELSE IF state = "failed" THEN "failed"
  ELSE "invalid"

\* Mutant of TagAsync: the flag is not set.
TagAsync_NoFlag(instance, operation) ==
  [instance EXCEPT
     !.Status.LastOperation = IF operation # "" THEN <<operation>> ELSE @]

\* if response.Operation != "" { instance.Status.LastOperation = &response.Operation }
\* instance.Status.AsyncOpInProgress = true
TagAsync(instance, operation) ==
  [instance EXCEPT
     !.Status.LastOperation = IF operation # "" THEN <<operation>> ELSE @,
     !.Status.AsyncOpInProgress = TRUE]

\* instance.Status.AsyncOpInProgress = false
ClearAsync(instance) == [instance EXCEPT !.Status.AsyncOpInProgress = FALSE]

\* lastOperationRequest.Operation
RequestOperation(instance) ==
  IF instance.Status.LastOperation # <<>> /\ instance.Status.LastOperation[1] # ""
  THEN instance.Status.LastOperation[1] ELSE ""

\* Mutant of SetCondition: lastTransitionTime is set on every call.
SetCondition_AlwaysNow(instance, status, reason, t) ==
  LET cs == instance.Status.Conditions
      hit == {i \in 1..Len(cs) : cs[i].Type = "Ready"}
      first == CHOOSE i \in hit : \A j \in hit : i <= j
      new == [Type |-> "Ready", Status |-> status, Reason |-> reason,
              LastTransitionTime |-> t]
  IN IF Len(cs) = 0 THEN [instance EXCEPT !.Status.Conditions = <<new>>]
     ELSE IF hit = {} THEN instance
     ELSE [instance EXCEPT !.Status.Conditions = [cs EXCEPT ![first] = new]]

\* updateInstanceCondition's toUpdate: a copy of the handler's instance with
\* the Ready condition set (the only condition type the controller writes).
\* t is what time.Now() returned: the new condition takes it as its
\* lastTransitionTime when the list is empty or the status changes, and
\* keeps the time of the condition it replaces otherwise.
SetCondition(instance, status, reason, t) ==
  LET cs == instance.Status.Conditions
      hit == {i \in 1..Len(cs) : cs[i].Type = "Ready"}
      first == CHOOSE i \in hit : \A j \in hit : i <= j
      new(time) == [Type |-> "Ready", Status |-> status, Reason |-> reason,
                    LastTransitionTime |-> time]
  IN IF Len(cs) = 0 THEN [instance EXCEPT !.Status.Conditions = <<new(t)>>]
     ELSE IF hit = {} THEN instance
     ELSE [instance EXCEPT !.Status.Conditions =
             [cs EXCEPT ![first] = new(IF cs[first].Status # status
                                       THEN t ELSE cs[first].LastTransitionTime)]]

\* updateInstanceFinalizers' toUpdate: the instance fetched from the store
\* with its finalizers replaced by the list the caller passed.
SetFinalizers(latest, finalizers) == [latest EXCEPT !.Finalizers = finalizers]

\* The status and reason each call of updateInstanceCondition passes, by the
\* source line of the call.
ConditionAt(site, deleting) ==
  CASE site = 101 -> [Status |-> "False", Reason |-> "ErrorNonexistentServiceClass"]
    [] site = 128 -> [Status |-> "Unknown", Reason |-> "errorDeprovisionCalledReason"]
    [] site = 148 -> [Status |-> "False", Reason |-> "asyncDeprovisioningReason"]
    [] site = 159 -> [Status |-> "False", Reason |-> "successDeprovisionReason"]
    [] site = 179 -> [Status |-> "False", Reason |-> "errorDeprovisionCalledReason"]
    [] site = 228 -> [Status |-> "False", Reason |-> "ErrorNonexistentServiceClass"]
    [] site = 245 -> [Status |-> "False", Reason |-> "errorWithParameters"]
    [] site = 261 -> [Status |-> "False", Reason |-> "errorFindingNamespaceInstanceReason"]
    [] site = 292 -> [Status |-> "False", Reason |-> "errorProvisionCalledReason"]
    [] site = 321 -> [Status |-> "False", Reason |-> "asyncProvisioningReason"]
    [] site = 341 -> [Status |-> "True", Reason |-> "successProvisionReason"]
    [] site = 356 -> [Status |-> "False", Reason |-> "ErrorNonexistentServiceClass"]
    [] site = 397 -> [Status |-> "False", Reason |-> "successDeprovisionReason"]
    [] site = 422 -> [Status |-> "False", Reason |-> "successDeprovisionReason"]
    [] site = 437 -> [Status |-> "True", Reason |-> "successProvisionReason"]
    [] site = 456 -> IF deleting
                     THEN [Status |-> "Unknown", Reason |-> "errorDeprovisionCalledReason"]
                     ELSE [Status |-> "False", Reason |-> "errorProvisionCalledReason"]

\* ------------------------------------------------------ worker positions
\* pc is the operation the worker performs next, site the source line of the
\* call; log is the pass's trace of broker calls, responses and store writes.
At(k, pc, site) == [k EXCEPT !.pc = pc, !.site = site]

Ret(k, r) == [k EXCEPT !.pc = "return", !.site = 0, !.ret = r]

Event(op, arg, code, ok, stale) ==
  [op |-> op, arg |-> arg, code |-> code, ok |-> ok, stale |-> stale]

\* The request of a broker call leaves the controller: the call is in flight
\* while pc names it.
Call(k, op, site) ==
  [k EXCEPT !.pc = op, !.site = site,
            !.log = Append(@, Event(op, RequestOperation(k.instance), 0, TRUE, FALSE))]

Logged(k, e) == [k EXCEPT !.log = Append(@, e)]

Loaded(instance) == [IdleWorker EXCEPT !.instance = instance, !.loaded = instance]

\* Mutant of reconcileInstanceDelete: the service class, plan and broker are
\* resolved before the never-provisioned shortcut.
reconcileInstanceDelete_ResolvesFirst(k, resolved) ==
  IF ~k.instance.DeletionTimestamp THEN Ret(k, "nil")
  ELSE IF ~HasFinalizer(k.instance) THEN Ret(k, "nil")
  ELSE IF ~resolved THEN At(k, "updateInstanceCondition", 101)
  ELSE IF NeverProvisioned(k.instance)
    THEN [At(k, "updateInstanceFinalizers.Get", 91)
            EXCEPT !.finalizers = FinalizersWithoutToken(k.instance)]
  ELSE Call(k, "DeleteServiceInstance", 115)

\* reconcileInstanceDelete up to its first broker call or store write.
\* resolved: getServiceClassPlanAndBroker found the class, plan and broker.
reconcileInstanceDelete(k, resolved) ==
  IF ~k.instance.DeletionTimestamp THEN Ret(k, "nil")
  ELSE IF ~HasFinalizer(k.instance) THEN Ret(k, "nil")
  ELSE IF NeverProvisioned(k.instance)
    THEN [At(k, "updateInstanceFinalizers.Get", 91)
            EXCEPT !.finalizers = FinalizersWithoutToken(k.instance)]
  ELSE IF ~resolved THEN At(k, "updateInstanceCondition", 101)
  ELSE Call(k, "DeleteServiceInstance", 115)

\* reconcileInstance up to its first broker call or store write.
\* pre: the outcome of unmarshalParameters and of the namespace lookup.
reconcileInstance(k, resolved, pre) ==
  IF NoWorkToDo(k.instance) THEN Ret(k, "nil")
  ELSE IF k.instance.DeletionTimestamp THEN reconcileInstanceDelete(k, resolved)
  ELSE IF ~resolved THEN At(k, "updateInstanceCondition", 228)
  ELSE IF k.instance.Status.AsyncOpInProgress THEN Call(k, "PollServiceInstance", 380)
  ELSE IF pre = "params" THEN At(k, "updateInstanceCondition", 245)
  ELSE IF pre = "namespace" THEN At(k, "updateInstanceCondition", 261)
  ELSE Call(k, "CreateServiceInstance", 288)

\* pollInstanceInternal up to the poll.
pollInstanceInternal(k, resolved) ==
  IF ~resolved THEN At(k, "updateInstanceCondition", 356)
  ELSE Call(k, "PollServiceInstance", 380)

\* What follows each call of updateInstanceCondition: most callers drop its
\* error, reconcileInstanceDelete returns it.
AfterCondition(k, site, failed) ==
  CASE site \in {101, 128, 228, 245, 261, 292, 356} -> Ret(k, "err")
    [] site \in {148, 179} -> Ret(k, IF failed THEN "err" ELSE "nil")
    [] site = 159 ->
         IF failed THEN Ret(k, "err")
         ELSE [At(k, "updateInstanceFinalizers.Get", 171)
                 EXCEPT !.finalizers = FinalizersWithoutToken(k.instance)]
    [] site = 422 ->
         IF HasFinalizer(k.instance)
         THEN [At(k, "updateInstanceFinalizers.Get", 432)
                 EXCEPT !.finalizers = FinalizersWithoutToken(k.instance)]
         ELSE Ret(k, "nil")
    [] site \in {321, 341, 397, 437, 456} -> Ret(k, "nil")

\* What follows each call of updateInstanceFinalizers.
AfterFinalizers(k, site, failed) ==
  CASE site \in {91, 171} -> Ret(k, IF failed THEN "err" ELSE "nil")
    [] site = 395 -> At(k, "updateInstanceCondition", 397)
    [] site = 432 -> Ret(k, "nil")

\* Mutant of AfterCreate: a synchronous success is tagged as an operation in
\* progress too.
AfterCreate_TagsSuccess(k, out, operation) ==
  CASE out = "error" -> At(k, "updateInstanceCondition", 292)
    [] out = "async" ->
         At([k EXCEPT !.instance = TagAsync(@, operation)], "updateInstanceCondition", 321)
    [] out = "ok" ->
         At([k EXCEPT !.instance = TagAsync(@, operation)], "updateInstanceCondition", 341)

\* reconcileInstance after CreateServiceInstance returned.
AfterCreate(k, out, operation) ==
  CASE out = "error" -> At(k, "updateInstanceCondition", 292)
    [] out = "async" ->
         At([k EXCEPT !.instance = TagAsync(@, operation)], "updateInstanceCondition", 321)
    [] out = "ok" -> At(k, "updateInstanceCondition", 341)

\* reconcileInstanceDelete after DeleteServiceInstance returned.
AfterDelete(k, out, operation) ==
  CASE out = "error" -> At(k, "updateInstanceCondition", 128)
    [] out = "async" ->
         At([k EXCEPT !.instance = TagAsync(@, operation)], "updateInstanceCondition", 148)
    [] out = "ok" -> At(k, "updateInstanceCondition", 159)
    [] out = "failure" -> At(k, "updateInstanceCondition", 179)

\* Mutant of AfterPoll: an operation still in progress ends the pass with nil.
AfterPoll_InProgressNil(k, out) ==
  CASE out \in {"error", "invalid"} -> Ret(k, "err")
    [] out = "in progress" -> Ret(k, "nil")
    [] out = "gone" ->
         LET k1 == [k EXCEPT !.instance = ClearAsync(@)] IN
         IF HasFinalizer(k1.instance)
         THEN [At(k1, "updateInstanceFinalizers.Get", 395)
                 EXCEPT !.finalizers = FinalizersWithoutToken(k1.instance)]
         ELSE At(k1, "updateInstanceCondition", 397)
    [] out = "succeeded" ->
         At([k EXCEPT !.instance = ClearAsync(@)], "updateInstanceCondition",
            IF k.instance.DeletionTimestamp THEN 422 ELSE 437)
    [] out = "failed" ->
         At([k EXCEPT !.instance = ClearAsync(@)], "updateInstanceCondition", 456)

\* pollInstance after PollServiceInstance returned.
AfterPoll(k, out) ==
  CASE out \in {"error", "in progress", "invalid"} -> Ret(k, "err")
    [] out = "gone" ->
         LET k1 == [k EXCEPT !.instance = ClearAsync(@)] IN
         IF HasFinalizer(k1.instance)
         THEN [At(k1, "updateInstanceFinalizers.Get", 395)
                 EXCEPT !.finalizers = FinalizersWithoutToken(k1.instance)]
         ELSE At(k1, "updateInstanceCondition", 397)
    [] out = "succeeded" ->
         At([k EXCEPT !.instance = ClearAsync(@)], "updateInstanceCondition",
            IF k.instance.DeletionTimestamp THEN 422 ELSE 437)
    [] out = "failed" ->
         At([k EXCEPT !.instance = ClearAsync(@)], "updateInstanceCondition", 456)

\* ------------------------------------------------------------------ Init
Init ==
  /\ store \in {[NewInstance(1) EXCEPT !.Finalizers = f] :
                  f \in {<<FinalizerServiceCatalog>>, <<FinalizerServiceCatalog, 3>>}}
  /\ instanceQueue = FALSE
  /\ pollingQueue = FALSE
  /\ wk = [w \in W |-> IdleWorker]
  /\ accepted = FALSE
  /\ acceptedOperation = ""
  /\ now = 0

\* ----------------------------------------------------------- environment
\* An add, update or resync event of the informer: the handler puts the key
\* in the reconciliation queue.
instanceAdd ==
  /\ store.exists /\ ~instanceQueue
  /\ instanceQueue' = TRUE
  /\ UNCHANGED <<store, pollingQueue, wk, accepted, acceptedOperation, now>>

\* The user deletes the Instance: the store sets the deletion timestamp.
UserDelete ==
  /\ store.exists /\ ~store.DeletionTimestamp
  /\ Commit(Purge([store EXCEPT !.DeletionTimestamp = TRUE, !.ResourceVersion = @ + 1]), wk)
  /\ UNCHANGED <<instanceQueue, pollingQueue, accepted, acceptedOperation, now>>

\* The user edits the spec of the Instance.
UserEditSpec ==
  /\ store.exists /\ ~store.DeletionTimestamp
  /\ \E spec \in Specs \ {store.Spec} :
       Commit([store EXCEPT !.Spec = spec, !.ResourceVersion = @ + 1], wk)
  /\ UNCHANGED <<instanceQueue, pollingQueue, accepted, acceptedOperation, now>>

\* Another controller adds its finalizer token (the store accepts no new
\* finalizer once the deletion timestamp is set).
OtherFinalizerAdd ==
  /\ store.exists /\ ~store.DeletionTimestamp
  /\ \E t \in OtherTokens \ Range(store.Finalizers) :
       Commit([store EXCEPT !.Finalizers = Append(@, t), !.ResourceVersion = @ + 1], wk)
  /\ UNCHANGED <<instanceQueue, pollingQueue, accepted, acceptedOperation, now>>

\* Another controller removes its finalizer token.
OtherFinalizerRemove ==
  /\ store.exists
  /\ \E t \in OtherTokens \cap Range(store.Finalizers) :
       Commit(Purge([store EXCEPT
                       !.Finalizers = SelectSeq(@, LAMBDA x : x # t),
                       !.ResourceVersion = @ + 1]),
              wk)
  /\ UNCHANGED <<instanceQueue, pollingQueue, accepted, acceptedOperation, now>>

\* ---------------------------------------------------------------- workers
\* A handler runs while no handler of the other queue does.
MayStart(w) == \A v \in W \ {w} : wk[v].pc = "idle"

\* reconcileInstanceKey: take the key, read the instance from the lister
\* (caught up with the store), run reconcileInstance.
reconcileInstanceKey ==
  /\ wk["rec"].pc = "idle" /\ instanceQueue /\ MayStart("rec")
  /\ instanceQueue' = FALSE
  /\ \E resolved \in BOOLEAN, pre \in {"ok", "params", "namespace"} :
       Commit(store,
              [wk EXCEPT !["rec"] =
                 IF store.exists THEN reconcileInstance(Loaded(store), resolved, pre)
                 ELSE Ret(IdleWorker, "nil")])
  /\ UNCHANGED <<pollingQueue, accepted, acceptedOperation, now>>

\* The polling worker: take the key, read the instance from the lister, run
\* pollInstanceInternal.
pollInstanceKey ==
  /\ wk["poll"].pc = "idle" /\ pollingQueue /\ MayStart("poll")
  /\ pollingQueue' = FALSE
  /\ \E resolved \in BOOLEAN :
       Commit(store,
              [wk EXCEPT !["poll"] =
                 IF store.exists THEN pollInstanceInternal(Loaded(store), resolved)
                 ELSE Ret(IdleWorker, "nil")])
  /\ UNCHANGED <<instanceQueue, accepted, acceptedOperation, now>>

BrokerCalls == {"CreateServiceInstance", "DeleteServiceInstance", "PollServiceInstance"}

\* CreateServiceInstance returns.
CreateResponse(w) ==
  /\ wk[w].pc = "CreateServiceInstance"
  /\ \E err \in BOOLEAN, respCode \in CreateCodes, operation \in Operations :
       LET out == CreateOutcome(err, respCode)
           k == Logged(wk[w], Event("response", out, 0, ~err, FALSE))
       IN /\ Commit(store, [wk EXCEPT ![w] = AfterCreate(k, out, operation)])
          /\ accepted' = (accepted \/ out = "async")
          /\ acceptedOperation' = IF out = "async" THEN operation ELSE acceptedOperation
  /\ UNCHANGED <<instanceQueue, pollingQueue, now>>

\* DeleteServiceInstance returns.
DeleteResponse(w) ==
  /\ wk[w].pc = "DeleteServiceInstance"
  /\ \E err \in BOOLEAN, respCode \in DeleteCodes, operation \in Operations :
       LET out == DeleteOutcome(err, respCode)
           k == Logged(wk[w], Event("response", out, IF err THEN 0 ELSE respCode, ~err, FALSE))
       IN /\ Commit(store, [wk EXCEPT ![w] = AfterDelete(k, out, operation)])
          /\ accepted' = (accepted \/ out = "async")
          /\ acceptedOperation' = IF out = "async" THEN operation ELSE acceptedOperation
  /\ UNCHANGED <<instanceQueue, pollingQueue, now>>

\* PollServiceInstance returns.
PollResponse(w) ==
  /\ wk[w].pc = "PollServiceInstance"
  /\ \E err \in BOOLEAN, rc \in PollCodes, state \in PollStates :
       LET out == PollOutcome(err, rc, state, wk[w].instance.DeletionTimestamp)
           k == Logged(wk[w], Event("response", out, 0, ~err, FALSE))
       IN /\ Commit(store, [wk EXCEPT ![w] = AfterPoll(k, out)])
          /\ accepted' = (accepted /\ out \notin {"gone", "succeeded", "failed"})
          /\ acceptedOperation' = IF out \in {"gone", "succeeded", "failed"} THEN "" ELSE acceptedOperation
  /\ UNCHANGED <<instanceQueue, pollingQueue, now>>

\* updateInstanceCondition: UpdateStatus of a copy of the handler's instance
\* with the condition set. After the write at line 321 the key is added to
\* the polling queue.
updateInstanceCondition(w) ==
  /\ wk[w].pc = "updateInstanceCondition"
  /\ LET k == wk[w]
         c == ConditionAt(k.site, k.instance.DeletionTimestamp)
         toUpdate == SetCondition(k.instance, c.Status, c.Reason, now)
         r == UpdateStatus(store, toUpdate)
         e == Event("UpdateStatus", c.Reason, k.site, r.err = "",
                    store.exists /\ toUpdate.ResourceVersion # store.ResourceVersion)
     IN /\ Commit(r.store, [wk EXCEPT ![w] = AfterCondition(Logged(k, e), k.site, r.err # "")])
        /\ pollingQueue' = (pollingQueue \/ k.site = 321)
  /\ UNCHANGED <<instanceQueue, accepted, acceptedOperation, now>>

\* updateInstanceFinalizers, first half: Get the latest instance from the
\* store. When the Get fails (the object is gone, the store is unreachable)
\* the error is logged only and the function goes on with the object the
\* client returned with the error, which is not the stored Instance.
updateInstanceFinalizersGet(w) ==
  /\ wk[w].pc = "updateInstanceFinalizers.Get"
  /\ \E err \in BOOLEAN :
       Commit(store,
              [wk EXCEPT ![w] = [@ EXCEPT !.pc = "updateInstanceFinalizers.UpdateStatus",
                                          !.latest = IF err \/ ~store.exists
                                                     THEN NoObj ELSE store]])
  /\ UNCHANGED <<instanceQueue, pollingQueue, accepted, acceptedOperation, now>>

\* updateInstanceFinalizers, second half: UpdateStatus of the fetched
\* instance with the finalizers the caller passed.
updateInstanceFinalizersUpdate(w) ==
  /\ wk[w].pc = "updateInstanceFinalizers.UpdateStatus"
  /\ LET k == wk[w]
         toUpdate == SetFinalizers(k.latest, k.finalizers)
         r == UpdateStatus(store, toUpdate)
         e == Event("UpdateStatus", "finalizers", k.site, r.err = "", FALSE)
     IN Commit(r.store,
               [wk EXCEPT ![w] =
                  AfterFinalizers(Logged([k EXCEPT !.latest = NoObj], e), k.site,
                                  r.err # "")])
  /\ UNCHANGED <<instanceQueue, pollingQueue, accepted, acceptedOperation, now>>

\* The worker loop: an error puts the key back in the worker's queue (with
\* backoff), success forgets it.
Return(w) ==
  /\ wk[w].pc = "return"
  /\ instanceQueue' = (instanceQueue \/ (w = "rec" /\ wk[w].ret = "err"))
  /\ pollingQueue' = (pollingQueue \/ (w = "poll" /\ wk[w].ret = "err"))
  /\ Commit(store, [wk EXCEPT ![w] = IdleWorker])
  /\ UNCHANGED <<accepted, acceptedOperation, now>>

Handler(w) ==
  \/ CreateResponse(w)
  \/ DeleteResponse(w)
  \/ PollResponse(w)
  \/ updateInstanceCondition(w)
  \/ updateInstanceFinalizersGet(w)
  \/ updateInstanceFinalizersUpdate(w)
  \/ Return(w)

Next ==
  \/ instanceAdd
  \/ UserDelete
  \/ UserEditSpec
  \/ OtherFinalizerAdd
  \/ OtherFinalizerRemove
  \/ reconcileInstanceKey
  \/ pollInstanceKey
  \/ \E w \in W : Handler(w)

Spec == Init /\ [][Next]_vars

\* The broker answers a poll with a terminal outcome.
PollTerminal(w) ==
  /\ PollResponse(w)
  /\ wk'[w].log[Len(wk'[w].log)].arg \in {"succeeded", "failed", "gone"}

\* The condition writes of a pass that could not resolve the service class,
\* plan and broker, unmarshal the parameters or find the namespace.
SetupFailureSites == {101, 228, 356, 245, 261}

\* reconcileInstanceKey and pollInstanceKey in a cluster where the service
\* class, plan, broker, parameters and namespace of the Instance are in order.
reconcileInstanceKeyResolved ==
  reconcileInstanceKey /\ wk'["rec"].site \notin SetupFailureSites

pollInstanceKeyResolved ==
  pollInstanceKey /\ wk'["poll"].site \notin SetupFailureSites

\* The controller with a user who only deletes the Instance, once, and no
\* other change to the Instance from outside.
FairNext ==
  \/ instanceAdd
  \/ UserDelete
  \/ reconcileInstanceKeyResolved
  \/ pollInstanceKeyResolved
  \/ \E w \in W : Handler(w)

\* The scheduling the controller has: the informer keeps delivering events
\* (resync), a pending key is taken by its worker, a handler that started
\* proceeds to its return; and the broker, polled again and again, answers
\* with a terminal outcome.
Fairness ==
  /\ WF_vars(instanceAdd)
  /\ SF_vars(reconcileInstanceKeyResolved)
  /\ SF_vars(pollInstanceKeyResolved)
  /\ \A w \in W : WF_vars(Handler(w))
  /\ SF_vars(\E w \in W : PollTerminal(w))

FairSpec == Init /\ [][FairNext]_vars /\ Fairness

\* ------------------------------------------- updateInstanceCondition alone
\* The statuses and reasons updateInstanceCondition is called with.
ConditionStatuses == {"True", "False", "Unknown"}

ConditionReasons == {"successProvisionReason", "errorProvisionCalledReason"}

\* One call of updateInstanceCondition on the stored Instance at its current
\* revision: t := time.Now() on a clock that does not run backwards, the
\* condition set on the copy, the copy stored.
updateInstanceConditionCalled(status, reason, t) ==
  /\ store.exists /\ t >= now
  /\ now' = t
  /\ Commit(UpdateStatus(store, SetCondition(store, status, reason, t)).store, wk)
  /\ UNCHANGED <<instanceQueue, pollingQueue, accepted, acceptedOperation>>

ConditionNext ==
  \E status \in ConditionStatuses, reason \in ConditionReasons, t \in 0..MaxTime :
    updateInstanceConditionCalled(status, reason, t)

\* Sequences of updateInstanceCondition calls on a new Instance.
ConditionSpec == Init /\ [][ConditionNext]_vars

\* ------------------------------------- deletion of a never-provisioned Instance
\* Finalizer tokens of other controllers, some sorting before and some after
\* the controller's own.
AnyOtherTokens == {1, 3, 4}

\* The finalizer lists of an Instance that carries the controller's token:
\* every order of the token with some of the others.
FinalizerLists ==
  {f \in UNION {[1..n -> AnyOtherTokens \cup {FinalizerServiceCatalog}] : n \in 1..4} :
     /\ FinalizerServiceCatalog \in Range(f)
     /\ \A i \in DOMAIN f : \A j \in DOMAIN f : f[i] = f[j] => i = j}

\* A never-provisioned Instance the user deleted, with any finalizer list.
FinalizerInit ==
  /\ store \in {[NewInstance(1) EXCEPT !.Finalizers = f, !.DeletionTimestamp = TRUE] :
                  f \in FinalizerLists}
  /\ instanceQueue = FALSE
  /\ pollingQueue = FALSE
  /\ wk = [w \in W |-> IdleWorker]
  /\ accepted = FALSE
  /\ acceptedOperation = ""
  /\ now = 0

\* The controller finalizing it, nothing else writing the Instance.
FinalizerNext ==
  \/ instanceAdd
  \/ reconcileInstanceKeyResolved
  \/ \E w \in W : updateInstanceFinalizersGet(w)
  \/ \E w \in W : updateInstanceFinalizersUpdate(w)
  \/ \E w \in W : Return(w)

FinalizerSpec == FinalizerInit /\ [][FinalizerNext]_vars

\* =============================================================== claims
\* Reading a pass's log.
Idx(w) == 1..Len(wk[w].log)

IsCall(e) == e.op \in BrokerCalls

IsWrite(e) == e.op = "UpdateStatus"

IsFinalizerWrite(e) == e.op = "UpdateStatus" /\ e.arg = "finalizers"

\* The broker call the pass issued, if any (a pass issues at most one).
Issued(w) == {wk[w].log[i].op : i \in {j \in Idx(w) : IsCall(wk[w].log[j])}}

\* The response event of the pass's broker call, as a set (empty or one).
Responses(w) == {wk[w].log[i] : i \in {j \in Idx(w) : wk[w].log[j].op = "response"}}

InPass(w) == wk[w].pc # "idle" /\ wk[w].loaded.exists

Returned(w) == wk[w].pc = "return" /\ wk[w].loaded.exists

\* C1: a reconciliation pass whose loaded instance has asyncOpInProgress set
\* issues neither createInstance nor deleteInstance, with the deletion
\* timestamp unset or set.
C1_MutualExclusion ==
  (InPass("rec") /\ wk["rec"].loaded.Status.AsyncOpInProgress)
    => Issued("rec") \cap {"CreateServiceInstance", "DeleteServiceInstance"} = {}

\* A reconciliation pass is a no-op: it returns nil at once, having issued no
\* broker call and submitted no store write.
NoOpPass(w) == wk[w].pc = "return" /\ wk[w].ret = "nil" /\ wk[w].log = <<>>

ChecksumMatches(instance) ==
  instance.Status.Checksum = <<InstanceSpecChecksum(instance.Spec)>>

\* C2 as stated: a pass over an instance whose status checksum equals the
\* checksum of its spec, with no deletion timestamp, is a no-op.
C2_NoOpOnMatchingChecksum ==
  (InPass("rec") /\ ChecksumMatches(wk["rec"].loaded)
     /\ ~wk["rec"].loaded.DeletionTimestamp)
    => NoOpPass("rec")

\* C2 amended: a pass over an instance whose status checksum equals the
\* checksum of its spec, with no deletion timestamp and no async operation
\* in progress, is a no-op.
C2_NoOpOnMatchingChecksumNoAsync ==
  (InPass("rec") /\ ChecksumMatches(wk["rec"].loaded)
     /\ ~wk["rec"].loaded.DeletionTimestamp
     /\ ~wk["rec"].loaded.Status.AsyncOpInProgress)
    => NoOpPass("rec")

C2_Witness ==
  /\ Returned("rec") /\ NoOpPass("rec")
  /\ ChecksumMatches(wk["rec"].loaded)
  /\ ~wk["rec"].loaded.DeletionTimestamp
  /\ ~wk["rec"].loaded.Status.AsyncOpInProgress

\* The outcomes after which the controller may remove its finalizer token:
\* the loaded instance has the deletion timestamp and (1) it was never
\* provisioned and no broker call was made, (2) deleteInstance answered 200,
\* (3) a poll answered succeeded or gone.
RemovalJustified(w) ==
  /\ wk[w].loaded.DeletionTimestamp
  /\ \/ /\ Issued(w) = {}
        /\ wk[w].loaded.Status.Checksum = <<>>
        /\ ~wk[w].loaded.Status.AsyncOpInProgress
     \/ /\ Issued(w) = {"DeleteServiceInstance"}
        /\ \E e \in Responses(w) : e.ok /\ e.code = StatusOK
     \/ /\ Issued(w) = {"PollServiceInstance"}
        /\ \E e \in Responses(w) : e.ok /\ e.arg \in {"succeeded", "gone"}

TokenStored(o) == o.exists /\ HasFinalizer(o)

\* The step is worker w's finalizer write, and the store accepted it.
FinalizerWritten(w) ==
  /\ wk[w].pc = "updateInstanceFinalizers.UpdateStatus"
  /\ Len(wk'[w].log) = Len(wk[w].log) + 1
  /\ IsFinalizerWrite(wk'[w].log[Len(wk'[w].log)])
  /\ wk'[w].log[Len(wk'[w].log)].ok

\* C3: the controller's finalizer token leaves the stored Instance only by
\* the finalizer write of a pass whose loaded instance has the deletion
\* timestamp set and that saw one of the deprovision outcomes: never
\* provisioned, deleteInstance answered 200, or a poll answered succeeded or
\* gone.
C3_FinalizerRemovalConfined ==
  [][(TokenStored(store) /\ ~TokenStored(store'))
       => \E w \in W : FinalizerWritten(w) /\ RemovalJustified(w)]_vars

C3_Witness ==
  \E w \in W :
    /\ InPass(w) /\ RemovalJustified(w)
    /\ \E i \in Idx(w) : IsFinalizerWrite(wk[w].log[i]) /\ wk[w].log[i].ok
    /\ ~TokenStored(store)

SuccessfulDeprovision(w) ==
  \E e \in Responses(w) :
    /\ e.ok
    /\ \/ Issued(w) = {"DeleteServiceInstance"} /\ e.code = StatusOK
       \/ Issued(w) = {"PollServiceInstance"} /\ wk[w].loaded.DeletionTimestamp
            /\ e.arg \in {"succeeded", "gone"}

\* C4: in a pass that saw a successful deprovision outcome, the write of
\* Ready=False with the success-deprovision reason comes before the
\* finalizer write, and no store write of the pass follows the finalizer
\* write.
C4_FinalizerRemovalLast ==
  \A w \in W :
    (InPass(w) /\ SuccessfulDeprovision(w)) =>
      \A i \in Idx(w) :
        IsFinalizerWrite(wk[w].log[i]) =>
          /\ \E j \in 1..(i - 1) :
               IsWrite(wk[w].log[j]) /\ wk[w].log[j].arg = "successDeprovisionReason"
          /\ \A j \in (i + 1)..Len(wk[w].log) : ~IsWrite(wk[w].log[j])

OthersOf(o) == IF o.exists THEN Range(o.Finalizers) \cap OtherTokens ELSE {}

\* C5: a finalizer write of the controller leaves every other controller's
\* token as it is in the stored object at the time of the write.
C5_NoClobber ==
  [][\A w \in W : FinalizerWritten(w) => (store'.exists /\ OthersOf(store') = OthersOf(store))
                                          \/ (~store'.exists /\ OthersOf(store) = {})]_vars

Quiescent == \A w \in W : wk[w].pc = "idle"

\* C6: between passes, the stored asyncOpInProgress is true exactly when a
\* create or delete was accepted and no terminal poll outcome was seen since.
C6_AsyncFlagInvariant ==
  (Quiescent /\ store.exists) => (store.Status.AsyncOpInProgress <=> accepted)

\* C7: a pass that flipped asyncOpInProgress and returns nil leaves the
\* stored Instance with the new flag value.
C7_FlagFlipDurable ==
  \A w \in W :
    (Returned(w) /\ wk[w].ret = "nil" /\ store.exists
       /\ wk[w].instance.Status.AsyncOpInProgress # wk[w].loaded.Status.AsyncOpInProgress)
      => store.Status.AsyncOpInProgress = wk[w].instance.Status.AsyncOpInProgress

\* C8: every store write of the controller submits a copy at the store's
\* current revision.
C8_WritesTargetLatest ==
  \A w \in W : \A i \in Idx(w) : IsWrite(wk[w].log[i]) => ~wk[w].log[i].stale

DeleteAnswered(w, codes) ==
  /\ Returned(w) /\ Issued(w) = {"DeleteServiceInstance"}
  /\ \E e \in Responses(w) : e.ok /\ e.code \in codes

WroteInOrder(w) ==
  \E i \in Idx(w) : \E j \in Idx(w) :
    /\ i < j
    /\ IsWrite(wk[w].log[i]) /\ wk[w].log[i].arg = "successDeprovisionReason"
    /\ wk[w].log[i].ok
    /\ IsFinalizerWrite(wk[w].log[j]) /\ wk[w].log[j].ok

\* C10: a pass whose deleteInstance was answered, without error,
\* by a success code other than 202 writes Ready=False with the
\* success-deprovision reason and removes the finalizer token.
C10_SyncSuccessAnyCode ==
  (DeleteAnswered("rec", {StatusOK, 201}) /\ wk["rec"].ret = "nil")
    => WroteInOrder("rec") /\ ~TokenStored(store)

\* C9: once a create or delete was accepted and the flag is stored, the
\* terminal outcome is eventually observed and the completion path runs: the
\* stored flag becomes false, or the Instance is finalized and erased.
C9_AsyncDrivenToCompletion ==
  (accepted /\ TokenStored(store) /\ store.Status.AsyncOpInProgress)
    ~> (~store.exists \/ ~store.Status.AsyncOpInProgress)

\* The Ready condition of the stored Instance, as a set (empty or one).
ReadyOf(o) ==
  LET cs == o.Status.Conditions
      hit == {i \in 1..Len(cs) : cs[i].Type = "Ready"}
  IN {cs[i] : i \in {j \in hit : \A l \in hit : j <= l}}

\* C11: a call of updateInstanceCondition whose status equals the Ready
\* condition's current status leaves lastTransitionTime unchanged (the
\* reason may change); a call whose status differs sets lastTransitionTime
\* to the current time, which is not before the previous value.
C11_TransitionTimeMonotone ==
  [][\A status \in ConditionStatuses, reason \in ConditionReasons, t \in 0..MaxTime :
       updateInstanceConditionCalled(status, reason, t) =>
         \A old \in ReadyOf(store) : \E new \in ReadyOf(store') :
           /\ new.Status = status /\ new.Reason = reason
           /\ IF old.Status = status
              THEN new.LastTransitionTime = old.LastTransitionTime
              ELSE /\ new.LastTransitionTime = now'
                   /\ new.LastTransitionTime >= old.LastTransitionTime]_vars

\* A Ready condition set at a time after the start and kept by a later call
\* with the same status.
C11_Witness ==
  \E c \in ReadyOf(store) : 0 < c.LastTransitionTime /\ c.LastTransitionTime < now

\* A finalizer list with the controller's token deleted and the other
\* tokens in their order.
TokenDeleted(l) == SelectSeq(l, LAMBDA x : x # FinalizerServiceCatalog)

\* C12: after a finalizer write of the controller the stored finalizer list
\* is the previous list with the controller's token deleted, every other
\* token present and in its original relative order.
C12_OtherFinalizersKeptInOrder ==
  [][\A w \in W :
       FinalizerWritten(w) =>
         IF store'.exists THEN store'.Finalizers = TokenDeleted(store.Finalizers)
         ELSE TokenDeleted(store.Finalizers) = <<>>]_vars

ReadyIs(o, status, reason) ==
  \E c \in ReadyOf(o) : c.Status = status /\ c.Reason = reason

\* The pass's broker call was answered, without error, with the outcome.
Answered(w, op, outcome) ==
  /\ Issued(w) = {op}
  /\ \E e \in Responses(w) : e.ok /\ e.arg = outcome

\* The store accepted the pass's condition write with the reason.
ConditionStored(w, reason) ==
  \E i \in Idx(w) :
    IsWrite(wk[w].log[i]) /\ wk[w].log[i].arg = reason /\ wk[w].log[i].ok

\* The store accepted the pass's finalizer write.
FinalizersStored(w) ==
  \E i \in Idx(w) : IsFinalizerWrite(wk[w].log[i]) /\ wk[w].log[i].ok

\* C13: a poll pass over an Instance with the deletion timestamp set and an
\* async operation in progress whose poll is answered 410 Gone, and whose
\* finalizer write the store accepted, returns with the token removed and
\* with its write of Ready=False, success-deprovision reason, accepted by
\* the store too.
C13_GoneIsSuccessfulDeprovision ==
  \A w \in W :
    (/\ Returned(w)
     /\ wk[w].loaded.DeletionTimestamp /\ wk[w].loaded.Status.AsyncOpInProgress
     /\ Answered(w, "PollServiceInstance", "gone")
     /\ FinalizersStored(w))
      => /\ ~TokenStored(store)
         /\ ConditionStored(w, "successDeprovisionReason")
         /\ store.exists => ReadyIs(store, "False", "successDeprovisionReason")

\* A new Instance: no deletion timestamp, nothing in its status.
IsNew(o) == o.exists /\ ~o.DeletionTimestamp /\ o.Status = NoStatus

SyncCreated ==
  /\ InPass("rec") /\ IsNew(wk["rec"].loaded) /\ HasFinalizer(wk["rec"].loaded)
  /\ Answered("rec", "CreateServiceInstance", "ok")

DeletingUnprovisioned ==
  /\ InPass("rec") /\ wk["rec"].loaded.DeletionTimestamp
  /\ HasFinalizer(wk["rec"].loaded)
  /\ wk["rec"].loaded.Status.Checksum = <<>>
  /\ ~wk["rec"].loaded.Status.AsyncOpInProgress

\* C16: a reconcile pass over an Instance with the deletion timestamp set,
\* the controller's token present, a nil checksum and no async operation in
\* progress issues no broker call and writes no condition, whether or not
\* the service class, plan and broker can be resolved; its only store write
\* is the finalizer write, it returns nil exactly when the store accepted
\* that write, and then the token is off the stored Instance.
C16_DeleteNeverProvisioned ==
  DeletingUnprovisioned =>
    /\ Issued("rec") = {}
    /\ wk["rec"].pc \in {"updateInstanceFinalizers.Get",
                          "updateInstanceFinalizers.UpdateStatus", "return"}
    /\ \A i \in Idx("rec") : IsFinalizerWrite(wk["rec"].log[i])
    /\ Returned("rec") =>
         /\ Len(wk["rec"].log) = 1
         /\ wk["rec"].ret = "nil" <=> FinalizersStored("rec")
         /\ wk["rec"].ret = "nil" => ~TokenStored(store)

C16_Witness ==
  /\ DeletingUnprovisioned /\ Returned("rec") /\ wk["rec"].ret = "nil"
  /\ FinalizersStored("rec") /\ Issued("rec") = {} /\ ~TokenStored(store)

\* C17: a reconcile pass whose deleteInstance was answered 202, and whose
\* status write the store accepted, returns with asyncOpInProgress true and
\* Ready=False with the async-deprovisioning reason stored, and with the key
\* in the polling queue.
C17_AcceptedDeprovisionHandedToPoller ==
  (/\ Returned("rec")
   /\ Answered("rec", "DeleteServiceInstance", "async")
   /\ ConditionStored("rec", "asyncDeprovisioningReason"))
    => /\ store.Status.AsyncOpInProgress
       /\ ReadyIs(store, "False", "asyncDeprovisioningReason")
       /\ pollingQueue

\* C18: createInstance is not issued again between an accepted response and
\* the observation of a terminal poll outcome.
C18_NoCreateWhileAccepted ==
  \A w \in W : accepted => wk[w].pc # "CreateServiceInstance"

\* C19: a poll pass whose poll is answered, without error, with a state
\* that is none of in progress, succeeded and failed (and is not the gone
\* status) returns nil, so that the key is not put back in the queue.
C19_UnrecognizedStateStopsPolling ==
  \A w \in W :
    (Returned(w) /\ Answered(w, "PollServiceInstance", "invalid"))
      => wk[w].ret = "nil"

\* What a poll answered failed leaves stored for a provisioning operation
\* accepted with a token: the token, asyncOpInProgress false, Ready=False
\* with the error-provision reason. In FairSpec the spec is never edited and
\* the flag, once stored, is cleared by a poll outcome only: an Instance
\* without deletion timestamp is stored so only after a poll answered
\* failed, with its spec unchanged since.
FailedProvisionStored(o) ==
  /\ o.exists /\ ~o.DeletionTimestamp
  /\ o.Status.LastOperation # <<>>
  /\ ~o.Status.AsyncOpInProgress
  /\ ReadyIs(o, "False", "errorProvisionCalledReason")

\* C20: while the spec of the Instance does not change, a reconcile pass
\* that loads the Instance as a poll answered failed left it issues no
\* createInstance.
C20_FailedNotRetried ==
  (InPass("rec") /\ FailedProvisionStored(wk["rec"].loaded))
    => "CreateServiceInstance" \notin Issued("rec")

\* The pass's broker call failed with a transport or broker error.
CallFailed(w) == \E e \in Responses(w) : ~e.ok

\* C21: a pass that returns an error after its createInstance,
\* deleteInstance or pollLastOperation call failed has submitted a write
\* of the Ready condition before.
C21_FailureRecordedBeforeError ==
  \A w \in W :
    (Returned(w) /\ wk[w].ret = "err" /\ CallFailed(w))
      => \E i \in Idx(w) : IsWrite(wk[w].log[i]) /\ ~IsFinalizerWrite(wk[w].log[i])

\* C22: a pass whose poll is answered in progress returns an error, has
\* submitted no store write and has changed nothing on its copy of the
\* Instance; the step that receives the answer leaves the stored Instance as
\* it is.
C22_InProgressChangesNothing ==
  /\ [](\A w \in W :
          (Returned(w) /\ Answered(w, "PollServiceInstance", "in progress"))
            => /\ wk[w].ret = "err"
               /\ \A i \in Idx(w) : ~IsWrite(wk[w].log[i])
               /\ wk[w].instance = wk[w].loaded)
  /\ [][\A w \in W :
          (~Answered(w, "PollServiceInstance", "in progress")
             /\ Answered(w, "PollServiceInstance", "in progress")')
            => store' = store]_vars

\* The poll worker returns from a poll answered in progress, the flag still
\* stored.
C22_Witness ==
  /\ Returned("poll") /\ Answered("poll", "PollServiceInstance", "in progress")
  /\ wk["poll"].ret = "err"
  /\ store.exists /\ store.Status.AsyncOpInProgress

\* The operation token of the poll request in flight, as a set.
PollOperation(w) ==
  {wk[w].log[i].arg : i \in {j \in Idx(w) : wk[w].log[j].op = "PollServiceInstance"}}

\* C23: while the operation accepted last is outstanding and its accepted
\* response carried no token, a poll request carries no token: the token
\* of an earlier operation is not sent.
C23_PollTokenOfCurrentOperation ==
  \A w \in W :
    (wk[w].pc = "PollServiceInstance" /\ accepted /\ acceptedOperation = "")
      => PollOperation(w) = {""}

\* C24: updateInstanceFinalizers goes on to its write only with the Instance
\* it fetched from the store: after a failed Get no pass is at the
\* UpdateStatus, holding an absent instance.
C24_FailedGetIsCleanError ==
  \A w \in W :
    wk[w].pc = "updateInstanceFinalizers.UpdateStatus" => wk[w].latest.exists

====
